---- MODULE Spec2Model ----
(***************************************************************************)
(* Model of src/main.c: two timer interrupts on a SAMD20-class board.      *)
(*   TC6 (adc_timer)  -> TC6_Handler -> adc_handler: read the ADC, run a   *)
(*        one-pole low-pass filter, write the DAC, store the millivolt     *)
(*        digits of the raw sample in display_number.                      *)
(*   TC7 (disp_timer) -> TC7_Handler -> display_handler: drive one digit   *)
(*        of the seven segment display per activation.                     *)
(* One step of the model is one C statement.  The registers of each timer  *)
(* are integers handled with the bit operations of the source.  The float  *)
(* variables are IEEE-754 single precision values <<m, e>> (value m * 2^e, *)
(* m = 0 or 2^23 <= m < 2^24), non-negative, round to nearest even.        *)
(***************************************************************************)
EXTENDS Integers, Sequences, FiniteSets, TLC

(***************************************************************************)
(* Bounds of the model                                                     *)
(***************************************************************************)
\* sampling activations per behaviour (the filter state never repeats)
MaxSamples == 3

(***************************************************************************)
(* Program constants                                                       *)
(***************************************************************************)
RESOLUTION == 12
DISPLAY_DIGIT_SIZE_MAX == 4
\* upper end of the filtered value's domain given to mapf (RESOLUTION == 12)
ADC_MAX == 4095
\* upper end of the DAC's domain given to mapf
DAC_MAX == 1023
\* the input range handed to map32 for the millivolt value
MV_IN_MAX == 65535
MV_OUT_MAX == 3300
\* interrupt numbers set in NVIC->ISER[0]
TC6_IRQ == 19
TC7_IRQ == 20
\* CTRLA.ENABLE is bit 1, STATUS.SYNCBUSY is bit 7, INTFLAG.OVF is bit 0
ENABLE_BIT == 1
SYNCBUSY_BIT == 7
OVF_BIT == 0

(***************************************************************************)
(* Bit operations on register values                                       *)
(***************************************************************************)
Bit(reg, n) == (reg \div (2^n)) % 2

RECURSIVE BitOr(_, _)
BitOr(a, b) ==
    IF a = 0 THEN b
    ELSE IF b = 0 THEN a
    ELSE 2 * BitOr(a \div 2, b \div 2) + (IF a % 2 = 1 \/ b % 2 = 1 THEN 1 ELSE 0)

\* reg & ~mask
RECURSIVE BitClear(_, _)
BitClear(reg, mask) ==
    IF reg = 0 THEN 0
    ELSE 2 * BitClear(reg \div 2, mask \div 2)
         + (IF reg % 2 = 1 /\ mask % 2 = 0 THEN 1 ELSE 0)

(***************************************************************************)
(* Single precision arithmetic on non-negative values                      *)
(***************************************************************************)
F_ZERO == <<0, 0>>
F_HIDDEN == 8388608      \* 2^23
F_LIMIT == 16777216      \* 2^24
F_HALFWORD == 4096       \* 2^12

\* round to nearest, ties to even: q units, rem out of 2*half below them
RoundNearestEven(q, rem, half) ==
    IF rem > half \/ (rem = half /\ q % 2 = 1) THEN q + 1 ELSE q

\* a rounded significand may have reached 2^24
Renorm(q, e) == IF q = F_LIMIT THEN <<F_HIDDEN, e + 1>> ELSE <<q, e>>

RECURSIVE Normalize(_, _)
Normalize(m, e) ==
    IF m = 0 THEN F_ZERO
    ELSE IF m < F_HIDDEN THEN Normalize(2 * m, e - 1)
    ELSE <<m, e>>

\* conversion of an unsigned integer below 2^24 (exact)
IntToFloat(n) == Normalize(n, 0)

\* a * b: the 48 bit product in two 24 bit halves, then rounded
FMul(a, b) ==
    IF a[1] = 0 \/ b[1] = 0 THEN F_ZERO
    ELSE
      LET a1 == a[1] \div F_HALFWORD
          a0 == a[1] % F_HALFWORD
          b1 == b[1] \div F_HALFWORD
          b0 == b[1] % F_HALFWORD
          mid == a1 * b0 + a0 * b1
          L == a0 * b0 + (mid % F_HALFWORD) * F_HALFWORD
          lo == L % F_LIMIT
          hi == a1 * b1 + (mid \div F_HALFWORD) + (L \div F_LIMIT)
          e == a[2] + b[2]
      IN  IF hi >= F_HIDDEN
          THEN Renorm(RoundNearestEven(hi, lo, F_HIDDEN), e + 24)
          ELSE Renorm(RoundNearestEven(2 * hi + (lo \div F_HIDDEN),
                                       lo % F_HIDDEN, F_HIDDEN \div 2), e + 23)

\* a + b for a, b >= 0: three extra bits (guard, round, sticky)
FAdd(a, b) ==
    IF a[1] = 0 THEN b
    ELSE IF b[1] = 0 THEN a
    ELSE
      LET big == IF a[2] >= b[2] THEN a ELSE b
          small == IF a[2] >= b[2] THEN b ELSE a
          d == big[2] - small[2]
          shifted == IF d >= 27 THEN 1
                     ELSE LET s == (small[1] * 8) \div (2^d)
                              sticky == (small[1] * 8) % (2^d) # 0
                          IN  IF sticky /\ s % 2 = 0 THEN s + 1 ELSE s
          S == big[1] * 8 + shifted
      IN  IF S >= F_LIMIT * 8
          THEN Renorm(RoundNearestEven(S \div 16, S % 16, 8), big[2] + 1)
          ELSE Renorm(RoundNearestEven(S \div 8, S % 8, 4), big[2])

\* long division: n quotient bits of r / d, returns <<quotient, remainder>>
RECURSIVE DivBits(_, _, _, _)
DivBits(r, d, q, n) ==
    IF n = 0 THEN <<q, r>>
    ELSE CHOOSE res \in
           {DivBits(s[1], d, s[2], n - 1) :
              s \in {IF r >= d THEN <<2 * (r - d), 2 * q + 1>> ELSE <<2 * r, 2 * q>>}} :
           TRUE

\* a / b for b > 0
FDiv(a, b) ==
    IF a[1] = 0 THEN F_ZERO
    ELSE
      LET qr == DivBits(a[1], b[1], 0, 26)
          q == qr[1]
          sticky == IF qr[2] # 0 THEN 1 ELSE 0
          e == a[2] - b[2]
      IN  IF q >= 2 * F_LIMIT
          THEN Renorm(RoundNearestEven(q \div 4, 2 * (q % 4) + sticky, 4), e - 23)
          ELSE Renorm(RoundNearestEven(q \div 2, 2 * (q % 2) + sticky, 2), e - 24)

\* conversion to an unsigned integer: the fraction is discarded
FloatToInt(a) ==
    IF a[1] = 0 THEN 0
    ELSE IF a[2] >= 0 THEN a[1] * (2^a[2])
    ELSE IF a[2] <= -24 THEN 0
    ELSE a[1] \div (2^(-a[2]))

\* a <= b
FLeq(a, b) ==
    IF a[1] = 0 THEN TRUE
    ELSE IF b[1] = 0 THEN FALSE
    ELSE a[2] < b[2] \/ (a[2] = b[2] /\ a[1] <= b[1])

(***************************************************************************)
(* The arithmetic of adc_handler                                           *)
(***************************************************************************)
\* static const float omega = BW*2*PI/SAMP_FREQ: the double 100*2*3.14/1000
\* converted to float, 10536092 * 2^-24 = 0.628000020980835
omega == <<10536092, -24>>
\* (1-omega): exact in single precision, 12482248 * 2^-25
one_minus_omega == <<12482248, -25>>

\* the previous output carried over whole instead of weighted by (1-omega)
FilterStep_undamped(yp, xp) == FAdd(yp, FMul(omega, xp))

\* y = (1-omega)*y_prev + omega*x_prev
FilterStep(yp, xp) == FAdd(FMul(one_minus_omega, yp), FMul(omega, xp))

\* mapf(v, in_min, in_max, out_min, out_max) for in_min = out_min = 0:
\* (v - in_min) * (out_max - out_min) / (in_max - in_min) + out_min
mapf(v, in_max, out_max) ==
    FDiv(FMul(v, IntToFloat(out_max)), IntToFloat(in_max))

\* map32(v, in_min, in_max, out_min, out_max) for in_min = out_min = 0,
\* in unsigned 32 bit arithmetic: the product v * 3300 stays below 2^31 for
\* every v up to 0xFFFF, so it never wraps
map32(v, in_max, out_max) == (v * out_max) \div in_max

\* the two ranges given to mapf the wrong way round
DacValue_ranges_swapped(yv) == FloatToInt(mapf(yv, DAC_MAX, ADC_MAX))

\* the value handed to write_to_dac
DacValue(yv) == FloatToInt(mapf(yv, ADC_MAX, DAC_MAX))

\* the raw sample taken as the millivolt value, the rescale left out
MilliVolts_unscaled(raw) == raw

\* the output range given to map32 the wrong way round (3300 down to 0)
MilliVolts_range_reversed(raw) == MV_OUT_MAX - map32(raw, MV_IN_MAX, MV_OUT_MAX)

\* adc_volt = map32(adc_raw, 0, 0xFFFF, 0, 3300)
MilliVolts(raw) == map32(raw, MV_IN_MAX, MV_OUT_MAX)

\* the tens digit taken without the modulo
DigitOf_tens_unreduced(v, i) ==
    CASE i = 0 -> (v % 10) % 256
      [] i = 1 -> (v \div 10) % 256
      [] i = 2 -> ((v % 1000) \div 100) % 256
      [] i = 3 -> ((v % 10000) \div 1000) % 256

\* the hundreds digit reduced by the wrong power of ten
DigitOf_hundreds_wrong_modulus(v, i) ==
    CASE i = 0 -> (v % 10) % 256
      [] i = 1 -> ((v % 100) \div 10) % 256
      [] i = 2 -> ((v % 10000) \div 100) % 256
      [] i = 3 -> ((v % 10000) \div 1000) % 256

\* the value stored in display_number[i], converted to UINT8
DigitOf(v, i) ==
    CASE i = 0 -> (v % 10) % 256
      [] i = 1 -> ((v % 100) \div 10) % 256
      [] i = 2 -> ((v % 1000) \div 100) % 256
      [] i = 3 -> ((v % 10000) \div 1000) % 256

(***************************************************************************)
(* State                                                                   *)
(***************************************************************************)
VARIABLES
    \* registers of TC6 and TC7 and of the interrupt controller
    adc_timer,        \* [CTRLA, STATUS, INTFLAG, INTENSET] of *adc_timer
    disp_timer,       \* [CTRLA, STATUS, INTFLAG, INTENSET] of *disp_timer
    NVIC_ISER,        \* NVIC->ISER[0], as the set of enabled interrupt numbers
    irq_priority,     \* which of the two interrupts may preempt the other
    \* control
    main_pc,          \* the line main() is about to execute
    active,           \* the handlers in progress, the running one last
    adc_pc,           \* the line TC6_Handler/adc_handler is about to execute
    disp_pc,          \* the line TC7_Handler/display_handler is about to execute
    \* statics of the program
    display_number,
    adc_raw, adc_volt, x, y, y_prev, x_prev,
    dig,
    \* outputs
    dac,              \* the last value given to write_to_dac, -1 before any
    ssd,              \* the last call of display_dig, <<>> before any
    \* history
    nSamples,         \* sampling activations that have read the ADC
    adc_events,       \* what the sampling activation in progress has done
    entry_state,      \* <<y_prev, x_prev>> when that activation read the ADC
    io,               \* <<y_prev, x_prev, adc_raw, dac>> of every DAC write
    prev_volt,        \* adc_volt of the last completed activation, -1 if none
    disp_events,      \* what the display activation in progress has done
    driven            \* the positions of the last 4 display_dig calls

hw_vars == <<adc_timer, disp_timer, NVIC_ISER, irq_priority>>
ctl_vars == <<main_pc, active, adc_pc, disp_pc>>
adc_vars == <<adc_raw, adc_volt, x, y, y_prev, x_prev>>
hist_vars == <<nSamples, adc_events, entry_state, io, prev_volt, disp_events,
               driven>>
vars == <<hw_vars, ctl_vars, display_number, adc_vars, dig, dac, ssd, hist_vars>>

\* the raw samples read_adc returns in the behaviours explored
SampleSet == {0, ADC_MAX}

\* a timer after reset: disabled, nothing pending, no interrupt enabled
TimerReset == [CTRLA |-> 0, STATUS |-> 0, INTFLAG |-> 0, INTENSET |-> 0]

\* the statics as initialised at lines 39, 154, 155 and 248, no output yet
StaticsAtStart ==
    /\ display_number = [i \in 0..(DISPLAY_DIGIT_SIZE_MAX - 1) |-> 1]
    /\ adc_raw = 0
    /\ adc_volt = 0
    /\ x = F_ZERO
    /\ y = F_ZERO
    /\ y_prev = F_ZERO
    /\ x_prev = F_ZERO
    /\ dig = 0
    /\ dac = -1
    /\ ssd = <<>>

HistoryAtStart ==
    /\ nSamples = 0
    /\ adc_events = <<>>
    /\ entry_state = <<F_ZERO, F_ZERO>>
    /\ io = {}
    /\ prev_volt = -1
    /\ disp_events = <<>>
    /\ driven = <<>>

Init ==
    /\ adc_timer = TimerReset
    /\ disp_timer = TimerReset
    /\ NVIC_ISER = {}
    /\ irq_priority \in {"equal", "TC6_above_TC7", "TC7_above_TC6"}
    /\ main_pc = "L124"
    /\ active = <<>>
    /\ adc_pc = "idle"
    /\ disp_pc = "idle"
    /\ StaticsAtStart
    /\ HistoryAtStart

(***************************************************************************)
(* Register accesses                                                       *)
(***************************************************************************)
\* the value OR-ed into CTRLA by configure_adc_interrupt:
\* (0x1 << 12) | (0x3 << 8) | (0x1 << 2) | (0x2 << 5)
ADC_CTRLA_CONFIG == 4932
\* the value OR-ed into CTRLA by configure_display_interrupt:
\* (0x1 << 12) | (0x5 << 8) | (0x0 << 2) | (0x1 << 5)
DISP_CTRLA_CONFIG == 5408

Enabled(t) == Bit(t.CTRLA, ENABLE_BIT) = 1
SyncBusy(t) == Bit(t.STATUS, SYNCBUSY_BIT) = 1
Overflowed(t) == Bit(t.INTFLAG, OVF_BIT) = 1

\* CTRLA.reg |= 1 << 1u: the write of ENABLE starts a synchronisation
WriteEnable(t) ==
    [t EXCEPT !.CTRLA = BitOr(@, 2^ENABLE_BIT),
              !.STATUS = BitOr(@, 2^SYNCBUSY_BIT)]

\* CTRLA.reg &= ~(1 << 1u): the write of ENABLE starts a synchronisation
WriteDisable(t) ==
    [t EXCEPT !.CTRLA = BitClear(@, 2^ENABLE_BIT),
              !.STATUS = BitOr(@, 2^SYNCBUSY_BIT)]

\* the configuration value carries the ENABLE bit as well
WriteConfig_enabling(t, config) ==
    [t EXCEPT !.CTRLA = BitOr(@, BitOr(config, 2^ENABLE_BIT))]

\* CTRLA.reg |= config
WriteConfig(t, config) == [t EXCEPT !.CTRLA = BitOr(@, config)]

\* PER.reg = ...; CC[0].reg = ...: the values are not kept, the write of a
\* counter register starts a synchronisation
WriteCounterRegs(t) == [t EXCEPT !.STATUS = BitOr(@, 2^SYNCBUSY_BIT)]

\* INTENSET.reg |= 1
WriteIntenset(t) == [t EXCEPT !.INTENSET = BitOr(@, 1)]

\* INTFLAG.reg |= 0x1: every flag bit written as 1 is cleared
WriteIntflag(t) == [t EXCEPT !.INTFLAG = BitClear(@, BitOr(@, 1))]

\* the interrupt line of a timer
Requests(t) == Bit(t.INTENSET, OVF_BIT) = 1 /\ Overflowed(t)

(***************************************************************************)
(* The timers (hardware)                                                   *)
(***************************************************************************)
\* the synchronisation of a write to TC6 completes
adc_timer_sync ==
    /\ SyncBusy(adc_timer)
    /\ adc_timer' = [adc_timer EXCEPT !.STATUS = BitClear(@, 2^SYNCBUSY_BIT)]
    /\ UNCHANGED <<disp_timer, NVIC_ISER, irq_priority, ctl_vars, display_number,
                   adc_vars, dig, dac, ssd, hist_vars>>

\* the synchronisation of a write to TC7 completes
disp_timer_sync ==
    /\ SyncBusy(disp_timer)
    /\ disp_timer' = [disp_timer EXCEPT !.STATUS = BitClear(@, 2^SYNCBUSY_BIT)]
    /\ UNCHANGED <<adc_timer, NVIC_ISER, irq_priority, ctl_vars, display_number,
                   adc_vars, dig, dac, ssd, hist_vars>>

\* TC6 counts only while enabled; its period expires and OVF is raised;
\* at most cap sampling activations are explored
adc_timer_overflow(cap) ==
    /\ Enabled(adc_timer) /\ ~SyncBusy(adc_timer)
    /\ ~Overflowed(adc_timer)
    /\ nSamples < cap
    /\ adc_timer' = [adc_timer EXCEPT !.INTFLAG = BitOr(@, 2^OVF_BIT)]
    /\ UNCHANGED <<disp_timer, NVIC_ISER, irq_priority, ctl_vars, display_number,
                   adc_vars, dig, dac, ssd, hist_vars>>

\* TC7 counts only while enabled; its period expires and OVF is raised
disp_timer_overflow ==
    /\ Enabled(disp_timer) /\ ~SyncBusy(disp_timer)
    /\ ~Overflowed(disp_timer)
    /\ disp_timer' = [disp_timer EXCEPT !.INTFLAG = BitOr(@, 2^OVF_BIT)]
    /\ UNCHANGED <<adc_timer, NVIC_ISER, irq_priority, ctl_vars, display_number,
                   adc_vars, dig, dac, ssd, hist_vars>>

(***************************************************************************)
(* main: lines 85 to 91, with the functions it calls inlined               *)
(***************************************************************************)
\* main runs only while no handler is in progress
MainStep(from, to) ==
    /\ active = <<>>
    /\ main_pc = from
    /\ main_pc' = to
    /\ UNCHANGED <<irq_priority, active, adc_pc, disp_pc, display_number,
                   adc_vars, dig, dac, ssd, hist_vars>>

\* the wait of line 114 with the test inverted: it waits for the bit to be set
disable_adc_timer_inverted_wait ==
    \/ /\ MainStep("L113", "L114")
       /\ adc_timer' = WriteDisable(adc_timer)
       /\ UNCHANGED <<disp_timer, NVIC_ISER>>
    \/ /\ MainStep("L114", "L136")
       /\ SyncBusy(adc_timer)
       /\ UNCHANGED <<adc_timer, disp_timer, NVIC_ISER>>

\* lines 113-114, called from line 127
disable_adc_timer ==
    \/ /\ MainStep("L113", "L114")
       /\ adc_timer' = WriteDisable(adc_timer)
       /\ UNCHANGED <<disp_timer, NVIC_ISER>>
    \/ /\ MainStep("L114", "L136")
       /\ ~SyncBusy(adc_timer)
       /\ UNCHANGED <<adc_timer, disp_timer, NVIC_ISER>>

\* lines 124-149
configure_adc_interrupt ==
    \/ /\ MainStep("L124", "L113")        \* adc_timer = timer6_8, the clocks
       /\ UNCHANGED <<adc_timer, disp_timer, NVIC_ISER>>
    \/ disable_adc_timer
    \/ /\ MainStep("L136", "L147")        \* CTRLA, PER, CC[0]
       /\ adc_timer' = WriteCounterRegs(WriteConfig(adc_timer, ADC_CTRLA_CONFIG))
       /\ UNCHANGED <<disp_timer, NVIC_ISER>>
    \/ /\ MainStep("L147", "L148")
       /\ NVIC_ISER' = NVIC_ISER \cup {TC6_IRQ}
       /\ UNCHANGED <<adc_timer, disp_timer>>
    \/ /\ MainStep("L148", "L149")
       /\ adc_timer' = WriteIntenset(adc_timer)
       /\ UNCHANGED <<disp_timer, NVIC_ISER>>
    \/ /\ MainStep("L149", "L108")
       /\ adc_timer' = WriteIntflag(adc_timer)
       /\ UNCHANGED <<disp_timer, NVIC_ISER>>

\* ENABLE written without the wait of line 108
enable_adc_timer_unsynchronized ==
    \/ /\ MainStep("L108", "L109")
       /\ UNCHANGED <<adc_timer, disp_timer, NVIC_ISER>>
    \/ /\ MainStep("L109", "L226")
       /\ adc_timer' = WriteEnable(adc_timer)
       /\ UNCHANGED <<disp_timer, NVIC_ISER>>

\* lines 108-109, called from line 86
enable_adc_timer ==
    \/ /\ MainStep("L108", "L109")
       /\ ~SyncBusy(adc_timer)
       /\ UNCHANGED <<adc_timer, disp_timer, NVIC_ISER>>
    \/ /\ MainStep("L109", "L226")
       /\ adc_timer' = WriteEnable(adc_timer)
       /\ UNCHANGED <<disp_timer, NVIC_ISER>>

\* lines 219-220, called from line 229
disable_display_timer ==
    \/ /\ MainStep("L219", "L220")
       /\ disp_timer' = WriteDisable(disp_timer)
       /\ UNCHANGED <<adc_timer, NVIC_ISER>>
    \/ /\ MainStep("L220", "L232")
       /\ ~SyncBusy(disp_timer)
       /\ UNCHANGED <<adc_timer, disp_timer, NVIC_ISER>>

\* lines 226-244
configure_display_interrupt ==
    \/ /\ MainStep("L226", "L219")        \* disp_timer = timer7_16, the clocks
       /\ UNCHANGED <<adc_timer, disp_timer, NVIC_ISER>>
    \/ disable_display_timer
    \/ /\ MainStep("L232", "L242")        \* CTRLA, CC[0]
       /\ disp_timer' = WriteCounterRegs(WriteConfig(disp_timer, DISP_CTRLA_CONFIG))
       /\ UNCHANGED <<adc_timer, NVIC_ISER>>
    \/ /\ MainStep("L242", "L243")
       /\ NVIC_ISER' = NVIC_ISER \cup {TC7_IRQ}
       /\ UNCHANGED <<adc_timer, disp_timer>>
    \/ /\ MainStep("L243", "L244")
       /\ disp_timer' = WriteIntenset(disp_timer)
       /\ UNCHANGED <<adc_timer, NVIC_ISER>>
    \/ /\ MainStep("L244", "L214")
       /\ disp_timer' = WriteIntflag(disp_timer)
       /\ UNCHANGED <<adc_timer, NVIC_ISER>>

\* lines 214-215, called from line 89; then main returns (line 91)
enable_display_timer ==
    \/ /\ MainStep("L214", "L215")
       /\ ~SyncBusy(disp_timer)
       /\ UNCHANGED <<adc_timer, disp_timer, NVIC_ISER>>
    \/ /\ MainStep("L215", "L91")
       /\ disp_timer' = WriteEnable(disp_timer)
       /\ UNCHANGED <<adc_timer, NVIC_ISER>>

main ==
    \/ configure_adc_interrupt
    \/ enable_adc_timer
    \/ configure_display_interrupt
    \/ enable_display_timer
    \/ /\ MainStep("L91", "done")
       /\ UNCHANGED <<adc_timer, disp_timer, NVIC_ISER>>

(***************************************************************************)
(* Interrupt entry and preemption                                          *)
(***************************************************************************)
\* src/main.c never writes a priority register, so which handler may
\* preempt the other is fixed by the rest of the board support code; all
\* three arrangements are explored.  A handler never preempts itself.
Preempts(h, g) ==
    \/ h = "TC6" /\ g = "TC7" /\ irq_priority = "TC6_above_TC7"
    \/ h = "TC7" /\ g = "TC6" /\ irq_priority = "TC7_above_TC6"

InProgress(h) == \E k \in 1..Len(active) : active[k] = h
Running(h) == active # <<>> /\ active[Len(active)] = h
CanEnter(h) ==
    /\ ~InProgress(h)
    /\ IF active = <<>> THEN TRUE ELSE Preempts(h, active[Len(active)])

\* the handler on top returns
Return == SubSeq(active, 1, Len(active) - 1)

(***************************************************************************)
(* TC6_Handler and adc_handler: lines 152 to 194                           *)
(***************************************************************************)
AdcStep(from, to) ==
    /\ Running("TC6")
    /\ adc_pc = from
    /\ adc_pc' = to
    /\ UNCHANGED <<disp_timer, NVIC_ISER, irq_priority, main_pc, disp_pc,
                   dig, ssd, disp_events, driven>>

\* the name under which the store of display_number[i] is recorded
CellEvent == [i \in 0..(DISPLAY_DIGIT_SIZE_MAX - 1) |->
                <<"cell0", "cell1", "cell2", "cell3">>[i + 1]]

\* the interrupt is acknowledged as soon as the sample is read
adc_read_acking(samples) ==
    /\ AdcStep("L164", "L166")
    /\ \E raw \in samples : adc_raw' = raw
    /\ nSamples' = nSamples + 1
    /\ entry_state' = <<y_prev, x_prev>>
    /\ adc_events' = Append(adc_events, "read")
    /\ adc_timer' = WriteIntflag(adc_timer)
    /\ UNCHANGED <<active, display_number, adc_volt, x, y, y_prev,
                   x_prev, dac, io, prev_volt>>

\* line 164: adc_raw = read_adc(), a value of the set samples
adc_read(samples) ==
    /\ AdcStep("L164", "L166")
    /\ \E raw \in samples : adc_raw' = raw
    /\ nSamples' = nSamples + 1
    /\ entry_state' = <<y_prev, x_prev>>
    /\ adc_events' = Append(adc_events, "read")
    /\ UNCHANGED <<adc_timer, active, display_number, adc_volt, x, y, y_prev,
                   x_prev, dac, io, prev_volt>>

\* the filter fed with the sample just read instead of the previous one
adc_filter_current_sample ==
    \/ /\ AdcStep("L166", "L167")
       /\ x' = IntToFloat(adc_raw)
       /\ UNCHANGED <<adc_timer, active, display_number, adc_raw, adc_volt, y,
                      y_prev, x_prev, dac, nSamples, adc_events, entry_state, io,
                      prev_volt>>
    \/ /\ AdcStep("L167", "L168")
       /\ y' = FilterStep(y_prev, x)
       /\ UNCHANGED <<adc_timer, active, display_number, adc_raw, adc_volt, x,
                      y_prev, x_prev, dac, nSamples, adc_events, entry_state, io,
                      prev_volt>>

\* lines 166-167: x = adc_raw; y = (1-omega)*y_prev + omega*x_prev
adc_filter ==
    \/ /\ AdcStep("L166", "L167")
       /\ x' = IntToFloat(adc_raw)
       /\ UNCHANGED <<adc_timer, active, display_number, adc_raw, adc_volt, y,
                      y_prev, x_prev, dac, nSamples, adc_events, entry_state, io,
                      prev_volt>>
    \/ /\ AdcStep("L167", "L168")
       /\ y' = FilterStep(y_prev, x_prev)
       /\ UNCHANGED <<adc_timer, active, display_number, adc_raw, adc_volt, x,
                      y_prev, x_prev, dac, nSamples, adc_events, entry_state, io,
                      prev_volt>>

\* lines 168-177: write_to_dac(mapf(y, 0, 4095, 0, 1023))
adc_write_dac ==
    /\ AdcStep("L168", "L178")
    /\ dac' = DacValue(y)
    /\ io' = io \cup {<<entry_state[1], entry_state[2], adc_raw, dac'>>}
    /\ adc_events' = Append(adc_events, "dac")
    /\ UNCHANGED <<adc_timer, active, display_number, adc_vars, nSamples,
                   entry_state, prev_volt>>

\* the two stores of lines 178-179 in the other order: x_prev = x; y_prev = y
adc_update_state_input_first ==
    \/ /\ AdcStep("L178", "L179")
       /\ x_prev' = x
       /\ adc_events' = Append(adc_events, "x_prev")
       /\ UNCHANGED <<adc_timer, active, display_number, adc_raw, adc_volt, x, y,
                      y_prev, dac, nSamples, entry_state, io, prev_volt>>
    \/ /\ AdcStep("L179", "L182")
       /\ y_prev' = y
       /\ adc_events' = Append(adc_events, "y_prev")
       /\ UNCHANGED <<adc_timer, active, display_number, adc_raw, adc_volt, x, y,
                      x_prev, dac, nSamples, entry_state, io, prev_volt>>

\* lines 178-179: y_prev = y; x_prev = x
adc_update_state ==
    \/ /\ AdcStep("L178", "L179")
       /\ y_prev' = y
       /\ adc_events' = Append(adc_events, "y_prev")
       /\ UNCHANGED <<adc_timer, active, display_number, adc_raw, adc_volt, x, y,
                      x_prev, dac, nSamples, entry_state, io, prev_volt>>
    \/ /\ AdcStep("L179", "L182")
       /\ x_prev' = x
       /\ adc_events' = Append(adc_events, "x_prev")
       /\ UNCHANGED <<adc_timer, active, display_number, adc_raw, adc_volt, x, y,
                      y_prev, dac, nSamples, entry_state, io, prev_volt>>

\* line 182: adc_volt = map32(adc_raw, 0, 0xFFFF, 0, 3300)
adc_millivolts ==
    /\ AdcStep("L182", "L183")
    /\ adc_volt' = MilliVolts(adc_raw)
    /\ UNCHANGED <<adc_timer, active, display_number, adc_raw, x, y, y_prev,
                   x_prev, dac, nSamples, adc_events, entry_state, io, prev_volt>>

\* the units digit is stored by the first activation only
adc_store_digits_units_once ==
    \E i \in 0..(DISPLAY_DIGIT_SIZE_MAX - 1) :
       /\ AdcStep(<<"L183", "L184", "L185", "L186">>[i + 1],
                  <<"L184", "L185", "L186", "L188">>[i + 1])
       /\ display_number' = IF i = 0 /\ prev_volt # -1 THEN display_number
                            ELSE [display_number EXCEPT ![i] = DigitOf(adc_volt, i)]
       /\ adc_events' = Append(adc_events, CellEvent[i])
       /\ UNCHANGED <<adc_timer, active, adc_vars, dac, nSamples, entry_state, io,
                      prev_volt>>

\* the four cells stored from the most significant one down
adc_store_digits_descending ==
    \E i \in 0..(DISPLAY_DIGIT_SIZE_MAX - 1) :
       LET c == DISPLAY_DIGIT_SIZE_MAX - 1 - i
       IN  /\ AdcStep(<<"L183", "L184", "L185", "L186">>[i + 1],
                      <<"L184", "L185", "L186", "L188">>[i + 1])
           /\ display_number' = [display_number EXCEPT ![c] = DigitOf(adc_volt, c)]
           /\ adc_events' = Append(adc_events, CellEvent[c])
           /\ UNCHANGED <<adc_timer, active, adc_vars, dac, nSamples, entry_state,
                          io, prev_volt>>

\* lines 183-186: display_number[0] ... display_number[3], one statement each
adc_store_digits ==
    \E i \in 0..(DISPLAY_DIGIT_SIZE_MAX - 1) :
       /\ AdcStep(<<"L183", "L184", "L185", "L186">>[i + 1],
                  <<"L184", "L185", "L186", "L188">>[i + 1])
       /\ display_number' = [display_number EXCEPT ![i] = DigitOf(adc_volt, i)]
       /\ adc_events' = Append(adc_events, CellEvent[i])
       /\ UNCHANGED <<adc_timer, active, adc_vars, dac, nSamples, entry_state, io,
                      prev_volt>>

\* the sampling task also sends the display back to its first position
adc_ack_restarting_scan ==
    /\ Running("TC6")
    /\ adc_pc = "L188"
    /\ adc_pc' = "L193"
    /\ dig' = 0
    /\ adc_timer' = WriteIntflag(adc_timer)
    /\ prev_volt' = adc_volt
    /\ adc_events' = Append(adc_events, "ack")
    /\ UNCHANGED <<disp_timer, NVIC_ISER, irq_priority, main_pc, disp_pc, ssd,
                   disp_events, driven, active, display_number, adc_vars, dac,
                   nSamples, entry_state, io>>

\* line 188: adc_timer->INTFLAG.reg |= 0x1
adc_ack ==
    /\ AdcStep("L188", "L193")
    /\ adc_timer' = WriteIntflag(adc_timer)
    /\ prev_volt' = adc_volt
    /\ adc_events' = Append(adc_events, "ack")
    /\ UNCHANGED <<active, display_number, adc_vars, dac, nSamples, entry_state,
                   io>>

\* the body entered without the test of line 162
adc_handler_unguarded(samples) ==
    \/ /\ AdcStep("L162", "L164")
       /\ UNCHANGED <<adc_timer, active, display_number, adc_vars, dac,
                      nSamples, adc_events, entry_state, io, prev_volt>>
    \/ adc_read(samples)
    \/ adc_filter
    \/ adc_write_dac
    \/ adc_update_state
    \/ adc_millivolts
    \/ adc_store_digits
    \/ adc_ack

\* lines 162-189
adc_handler(samples) ==
    \/ /\ AdcStep("L162", IF Overflowed(adc_timer) THEN "L164" ELSE "L193")
       /\ UNCHANGED <<adc_timer, active, display_number, adc_vars, dac,
                      nSamples, adc_events, entry_state, io, prev_volt>>
    \/ adc_read(samples)
    \/ adc_filter
    \/ adc_write_dac
    \/ adc_update_state
    \/ adc_millivolts
    \/ adc_store_digits
    \/ adc_ack

\* lines 192-194: entered when the interrupt of TC6 is requested and enabled
TC6_Handler(samples) ==
    \/ /\ TC6_IRQ \in NVIC_ISER
       /\ Requests(adc_timer)
       /\ CanEnter("TC6")
       /\ adc_pc = "idle"
       /\ active' = Append(active, "TC6")
       /\ adc_pc' = "L162"
       /\ adc_events' = <<>>
       /\ UNCHANGED <<hw_vars, main_pc, disp_pc, display_number, adc_vars, dig, dac,
                      ssd, nSamples, entry_state, io, prev_volt, disp_events,
                      driven>>
    \/ adc_handler(samples)
    \/ /\ AdcStep("L193", "idle")
       /\ active' = Return
       /\ UNCHANGED <<adc_timer, display_number, adc_vars, dac, nSamples, adc_events,
                      entry_state, io, prev_volt>>

(***************************************************************************)
(* TC7_Handler and display_handler: lines 247 to 258                       *)
(***************************************************************************)
DispStep(from, to) ==
    /\ Running("TC7")
    /\ disp_pc = from
    /\ disp_pc' = to
    /\ UNCHANGED <<adc_timer, NVIC_ISER, irq_priority, main_pc, adc_pc,
                   adc_vars, dac, nSamples, adc_events, entry_state, io, prev_volt>>

\* the values a read of display_number[i] may give: outside the array the
\* read is undefined and any UINT8 may come back
ReadCell(i) ==
    IF i \in DOMAIN display_number THEN {display_number[i]} ELSE 0..255

\* display_dig(add, num, select, show_dp, show_blank): the digit num is
\* shown at position select, with the decimal point and the blanking as given
display_dig(add, num, select, show_dp, show_blank) ==
    [value |-> num, position |-> select, dp |-> show_dp, blank |-> show_blank]

\* the last 4 positions driven
Last4(s) == IF Len(s) > DISPLAY_DIGIT_SIZE_MAX THEN Tail(s) ELSE s

\* the wrap tested one position too late
NextDig_wrap_late(d) == IF d = DISPLAY_DIGIT_SIZE_MAX THEN 0 ELSE (d + 1) % 256

\* dig = (dig == DISPLAY_DIGIT_SIZE_MAX-1) ? 0 : (dig+1), a UINT8
NextDig(d) == IF d = DISPLAY_DIGIT_SIZE_MAX - 1 THEN 0 ELSE (d + 1) % 256

\* the digit shown is also taken out of the buffer
display_drive_consuming ==
    /\ DispStep("L250", "L251")
    /\ \E v \in ReadCell(DISPLAY_DIGIT_SIZE_MAX - 1 - dig) :
          ssd' = display_dig(0, v, dig, FALSE, FALSE)
    /\ driven' = Last4(Append(driven, dig))
    /\ disp_events' = Append(disp_events, "drive")
    /\ display_number' = [i \in DOMAIN display_number |->
                            IF i = DISPLAY_DIGIT_SIZE_MAX - 1 - dig THEN 0
                            ELSE display_number[i]]
    /\ UNCHANGED <<disp_timer, active, dig>>

\* the cell is taken at the cursor itself, not counted from the other end
display_drive_unreversed ==
    /\ DispStep("L250", "L251")
    /\ \E v \in ReadCell(dig) : ssd' = display_dig(0, v, dig, FALSE, FALSE)
    /\ driven' = Last4(Append(driven, dig))
    /\ disp_events' = Append(disp_events, "drive")
    /\ UNCHANGED <<disp_timer, active, display_number, dig>>

\* line 250: display_dig(0, display_number[DISPLAY_DIGIT_SIZE_MAX-1-dig], dig,
\* FALSE__, FALSE__)
display_drive ==
    /\ DispStep("L250", "L251")
    /\ \E v \in ReadCell(DISPLAY_DIGIT_SIZE_MAX - 1 - dig) :
          ssd' = display_dig(0, v, dig, FALSE, FALSE)
    /\ driven' = Last4(Append(driven, dig))
    /\ disp_events' = Append(disp_events, "drive")
    /\ UNCHANGED <<disp_timer, active, display_number, dig>>

\* lines 249-252
display_handler ==
    \/ /\ DispStep("L249", IF Overflowed(disp_timer) THEN "L250" ELSE "L257")
       /\ UNCHANGED <<disp_timer, active, display_number, dig, ssd, disp_events,
                      driven>>
    \/ display_drive
    \/ /\ DispStep("L251", "L257")
       /\ dig' = NextDig(dig)
       /\ disp_events' = Append(disp_events, "advance")
       /\ UNCHANGED <<disp_timer, active, display_number, ssd, driven>>

\* line 257: disp_timer->INTFLAG.reg |= 0x1
disp_ack ==
    /\ DispStep("L257", "L258")
    /\ disp_timer' = WriteIntflag(disp_timer)
    /\ disp_events' = Append(disp_events, "ack")
    /\ UNCHANGED <<active, display_number, dig, ssd, driven>>

\* lines 255-258: entered when the interrupt of TC7 is requested and enabled
TC7_Handler ==
    \/ /\ TC7_IRQ \in NVIC_ISER
       /\ Requests(disp_timer)
       /\ CanEnter("TC7")
       /\ disp_pc = "idle"
       /\ active' = Append(active, "TC7")
       /\ disp_pc' = "L249"
       /\ disp_events' = <<>>
       /\ UNCHANGED <<hw_vars, main_pc, adc_pc, display_number, adc_vars, dig, dac,
                      ssd, nSamples, adc_events, entry_state, io, prev_volt, driven>>
    \/ display_handler
    \/ disp_ack
    \/ /\ DispStep("L258", "idle")
       /\ active' = Return
       /\ UNCHANGED <<disp_timer, display_number, dig, ssd, disp_events, driven>>

(***************************************************************************)
(* The program with its two timers                                         *)
(***************************************************************************)
Next ==
    \/ main
    \/ adc_timer_sync
    \/ disp_timer_sync
    \/ adc_timer_overflow(MaxSamples)
    \/ disp_timer_overflow
    \/ TC6_Handler(SampleSet)
    \/ TC7_Handler

Spec == Init /\ [][Next]_vars

(***************************************************************************)
(* Startup: main and the sampling interrupt, which can occur from line 109 *)
(* on, with hardware that completes every synchronisation, a processor     *)
(* that goes on with main whenever no handler is in progress and a handler *)
(* that runs on once entered.                                              *)
(***************************************************************************)
\* sampling activations during startup
MaxStartupSamples == 2

NextStartup ==
    \/ main
    \/ adc_timer_sync
    \/ disp_timer_sync
    \/ adc_timer_overflow(MaxStartupSamples)
    \/ TC6_Handler({ADC_MAX})

Fairness ==
    /\ WF_vars(adc_timer_sync)
    /\ WF_vars(disp_timer_sync)
    /\ SF_vars(main)
    /\ WF_vars(TC6_Handler({ADC_MAX}))

SpecStartup == Init /\ [][NextStartup]_vars /\ Fairness

(***************************************************************************)
(* The first sampling activation for every value read_adc can return, and  *)
(* the first display activation, nested or one after the other: main has   *)
(* returned with both timers running and both have just overflowed.        *)
(***************************************************************************)
\* the registers once main has returned and both periods have expired
TimersOverflowed ==
    /\ adc_timer = [CTRLA |-> BitOr(ADC_CTRLA_CONFIG, 2^ENABLE_BIT), STATUS |-> 0,
                    INTFLAG |-> 2^OVF_BIT, INTENSET |-> 1]
    /\ disp_timer = [CTRLA |-> BitOr(DISP_CTRLA_CONFIG, 2^ENABLE_BIT), STATUS |-> 0,
                     INTFLAG |-> 2^OVF_BIT, INTENSET |-> 1]
    /\ NVIC_ISER = {TC6_IRQ, TC7_IRQ}
    /\ main_pc = "done"

InitFirstSample ==
    /\ TimersOverflowed
    /\ irq_priority \in {"equal", "TC6_above_TC7", "TC7_above_TC6"}
    /\ active = <<>>
    /\ adc_pc = "idle"
    /\ disp_pc = "idle"
    /\ StaticsAtStart
    /\ HistoryAtStart

NextFirstSample ==
    \/ TC6_Handler(0..ADC_MAX)
    \/ TC7_Handler

SpecFirstSample == InitFirstSample /\ [][NextFirstSample]_vars

(***************************************************************************)
(* Lines 183 to 186 as a function of adc_volt: a sampling activation is    *)
(* about to store the digits of any value of up to four decimal digits.    *)
(***************************************************************************)
\* the largest value of four decimal digits
MaxVolt == 10^DISPLAY_DIGIT_SIZE_MAX - 1

InitDigits ==
    /\ TimersOverflowed
    /\ irq_priority = "equal"
    /\ active = <<"TC6">>
    /\ adc_pc = "L183"
    /\ disp_pc = "idle"
    /\ display_number = [i \in 0..(DISPLAY_DIGIT_SIZE_MAX - 1) |-> 1]
    /\ adc_raw = 0
    /\ adc_volt \in 0..MaxVolt
    /\ x = F_ZERO
    /\ y = F_ZERO
    /\ y_prev = F_ZERO
    /\ x_prev = F_ZERO
    /\ dig = 0
    /\ dac = 0
    /\ ssd = <<>>
    /\ nSamples = 1
    /\ adc_events = <<"read", "dac", "y_prev", "x_prev">>
    /\ entry_state = <<F_ZERO, F_ZERO>>
    /\ io = {<<F_ZERO, F_ZERO, 0, 0>>}
    /\ prev_volt = -1
    /\ disp_events = <<>>
    /\ driven = <<>>

NextDigits == adc_store_digits

SpecDigits == InitDigits /\ [][NextDigits]_vars

(***************************************************************************)
(* The sampling task alone over many activations: the input is free for    *)
(* the first FreeSamples reads and is then held at its last value.         *)
(***************************************************************************)
FreeSamples == 2
MaxHeldSamples == 24

HeldInput == IF nSamples < FreeSamples THEN SampleSet ELSE {adc_raw}

NextHold ==
    \/ main
    \/ adc_timer_sync
    \/ disp_timer_sync
    \/ adc_timer_overflow(MaxHeldSamples)
    \/ TC6_Handler(HeldInput)

SpecHold == Init /\ [][NextHold]_vars

(***************************************************************************)
(* Lines 168 to 182 as functions of y and adc_raw: a sampling activation   *)
(* that read any sample n of the native range is about to write the DAC,   *)
(* its filtered value being n or one of the two single precision values    *)
(* next to n.                                                              *)
(***************************************************************************)
\* the single precision value just below a (0 for 0)
Below(a) ==
    IF a[1] = 0 THEN F_ZERO
    ELSE IF a[1] = F_HIDDEN THEN <<F_LIMIT - 1, a[2] - 1>>
    ELSE <<a[1] - 1, a[2]>>

\* the single precision value just above a (the smallest normal one for 0)
Above(a) ==
    IF a[1] = 0 THEN <<F_HIDDEN, -149>>
    ELSE IF a[1] = F_LIMIT - 1 THEN <<F_HIDDEN, a[2] + 1>>
    ELSE <<a[1] + 1, a[2]>>

\* n and its neighbours, inside the range 0 .. ADC_MAX of the filtered value
AroundSample(n) ==
    {w \in {Below(IntToFloat(n)), IntToFloat(n), Above(IntToFloat(n))} :
        FLeq(w, IntToFloat(ADC_MAX))}

InitRescale ==
    /\ TimersOverflowed
    /\ irq_priority = "equal"
    /\ active = <<"TC6">>
    /\ adc_pc = "L168"
    /\ disp_pc = "idle"
    /\ display_number = [i \in 0..(DISPLAY_DIGIT_SIZE_MAX - 1) |-> 1]
    /\ adc_raw \in 0..ADC_MAX
    /\ adc_volt = 0
    /\ x = IntToFloat(adc_raw)
    /\ y \in AroundSample(adc_raw)
    /\ y_prev = F_ZERO
    /\ x_prev = F_ZERO
    /\ dig = 0
    /\ dac = -1
    /\ ssd = <<>>
    /\ nSamples = 1
    /\ adc_events = <<"read">>
    /\ entry_state = <<F_ZERO, F_ZERO>>
    /\ io = {}
    /\ prev_volt = -1
    /\ disp_events = <<>>
    /\ driven = <<>>

NextRescale ==
    \/ adc_write_dac
    \/ adc_update_state
    \/ adc_millivolts

SpecRescale == InitRescale /\ [][NextRescale]_vars

(***************************************************************************)
(* One sampling activation from every filter state that up to MaxHistory   *)
(* earlier activations leave behind.                                       *)
(***************************************************************************)
MaxHistory == 2

\* the samples of the earlier activations and of the one explored
StepSamples == {0, 2048, ADC_MAX}

\* <<y_prev, x_prev>> after activations that read the samples h in turn
RECURSIVE FilterAfter(_)
FilterAfter(h) ==
    IF h = <<>> THEN <<F_ZERO, F_ZERO>>
    ELSE LET before == FilterAfter(SubSeq(h, 1, Len(h) - 1))
         IN  <<FilterStep(before[1], before[2]), IntToFloat(h[Len(h)])>>

\* the statics and outputs once activations that read h have completed
StaticsAfter(h) ==
    IF h = <<>> THEN StaticsAtStart
    ELSE
      LET last == h[Len(h)]
          state == FilterAfter(h)
      IN  /\ adc_raw = last
          /\ adc_volt = MilliVolts(last)
          /\ display_number = [i \in 0..(DISPLAY_DIGIT_SIZE_MAX - 1) |->
                                 DigitOf(MilliVolts(last), i)]
          /\ x = state[2]
          /\ y = state[1]
          /\ y_prev = state[1]
          /\ x_prev = state[2]
          /\ dig = 0
          /\ dac = DacValue(state[1])
          /\ ssd = <<>>

InitStep ==
    /\ TimersOverflowed
    /\ irq_priority = "equal"
    /\ active = <<>>
    /\ adc_pc = "idle"
    /\ disp_pc = "idle"
    /\ \E k \in 0..MaxHistory : \E h \in [1..k -> StepSamples] :
          /\ StaticsAfter(h)
          /\ nSamples = k
          /\ prev_volt = IF k = 0 THEN -1 ELSE MilliVolts(h[k])
    /\ adc_events = <<>>
    /\ entry_state = <<F_ZERO, F_ZERO>>
    /\ io = {}
    /\ disp_events = <<>>
    /\ driven = <<>>

NextStep == TC6_Handler(StepSamples)

SpecStep == InitStep /\ [][NextStep]_vars

(***************************************************************************)
(* The handlers invoked without a pending overflow.  The write of INTFLAG  *)
(* is the last statement of each handler (lines 188, 257): when it has not *)
(* reached the timer by the time the handler returns, the interrupt is     *)
(* still requested and the handler is entered once more, with the flag     *)
(* clear.  Both timers run, main has returned.                             *)
(***************************************************************************)
\* sampling activations that read the ADC
MaxSpuriousSamples == 2

\* the registers once main has returned, no period expired since
TimersRunning ==
    /\ adc_timer = [CTRLA |-> BitOr(ADC_CTRLA_CONFIG, 2^ENABLE_BIT), STATUS |-> 0,
                    INTFLAG |-> 0, INTENSET |-> 1]
    /\ disp_timer = [CTRLA |-> BitOr(DISP_CTRLA_CONFIG, 2^ENABLE_BIT), STATUS |-> 0,
                     INTFLAG |-> 0, INTENSET |-> 1]
    /\ NVIC_ISER = {TC6_IRQ, TC7_IRQ}
    /\ main_pc = "done"

InitSpurious ==
    /\ TimersRunning
    /\ irq_priority \in {"equal", "TC6_above_TC7", "TC7_above_TC6"}
    /\ active = <<>>
    /\ adc_pc = "idle"
    /\ disp_pc = "idle"
    /\ \E h \in {<<>>, <<ADC_MAX>>} :
          /\ StaticsAfter(h)
          /\ nSamples = Len(h)
          /\ prev_volt = IF h = <<>> THEN -1 ELSE MilliVolts(h[Len(h)])
    /\ adc_events = <<>>
    /\ entry_state = <<F_ZERO, F_ZERO>>
    /\ io = {}
    /\ disp_events = <<>>
    /\ driven = <<>>

\* TC6_Handler entered with no overflow pending
TC6_Spurious ==
    /\ TC6_IRQ \in NVIC_ISER
    /\ ~Requests(adc_timer)
    /\ CanEnter("TC6")
    /\ adc_pc = "idle"
    /\ active' = Append(active, "TC6")
    /\ adc_pc' = "L162"
    /\ adc_events' = <<>>
    /\ UNCHANGED <<hw_vars, main_pc, disp_pc, display_number, adc_vars, dig, dac,
                   ssd, nSamples, entry_state, io, prev_volt, disp_events, driven>>

\* TC7_Handler entered with no overflow pending
TC7_Spurious ==
    /\ TC7_IRQ \in NVIC_ISER
    /\ ~Requests(disp_timer)
    /\ CanEnter("TC7")
    /\ disp_pc = "idle"
    /\ active' = Append(active, "TC7")
    /\ disp_pc' = "L249"
    /\ disp_events' = <<>>
    /\ UNCHANGED <<hw_vars, main_pc, adc_pc, display_number, adc_vars, dig, dac,
                   ssd, nSamples, adc_events, entry_state, io, prev_volt, driven>>

NextSpurious ==
    \/ adc_timer_overflow(MaxSpuriousSamples)
    \/ disp_timer_overflow
    \/ TC6_Spurious
    \/ TC7_Spurious
    \/ TC6_Handler(SampleSet)
    \/ TC7_Handler

SpecSpurious == InitSpurious /\ [][NextSpurious]_vars

(***************************************************************************)
(* Properties                                                              *)
(***************************************************************************)
Positions == 0..(DISPLAY_DIGIT_SIZE_MAX - 1)

\* C1: the cursor dig is always in 0..3, and the last 4 activations of the
\* display task drove each of the positions 0..3 exactly once and left dig
\* at the value it had before the first of them.
MultiplexCoverage ==
    /\ dig \in Positions
    /\ (Len(driven) = DISPLAY_DIGIT_SIZE_MAX /\ disp_pc # "L251") =>
          /\ {driven[k] : k \in 1..Len(driven)} = Positions
          /\ dig = driven[1]

\* four activations that started with the cursor at 2 have completed
MultiplexCoverageWitness ==
    /\ Len(driven) = DISPLAY_DIGIT_SIZE_MAX
    /\ driven = <<2, 3, 0, 1>>
    /\ disp_pc = "idle"
    /\ dig = 2

\* no sampling activation has stored a digit yet
BufferUntouched ==
    /\ prev_volt = -1
    /\ \A k \in 1..Len(adc_events) :
          adc_events[k] \notin {CellEvent[i] : i \in Positions}

Sentinel == [i \in Positions |-> 1]

\* C7: the buffer is {1,1,1,1} until a sampling activation stores its first
\* digit, and no step of the display task changes any cell.
SentinelUnaffected ==
    /\ [](BufferUntouched => display_number = Sentinel)
    /\ [][disp_pc' # disp_pc => display_number' = display_number]_vars

\* the display has gone round all positions, a sampling activation is about
\* to store its first digit, and the sentinel is still there
SentinelUnaffectedWitness ==
    /\ Len(driven) = DISPLAY_DIGIT_SIZE_MAX
    /\ adc_pc = "L183"
    /\ BufferUntouched
    /\ display_number = Sentinel

Digits == 0..9

\* C2: every cell of display_number holds a decimal digit 0..9 in every
\* state, whatever value read_adc returned and wherever the display task
\* runs relative to the four stores of the sampling task.
CellsAreDigits == \A i \in Positions : display_number[i] \in Digits

\* the display task has driven a digit between the stores of cells 1 and 2
\* of a sampling activation that read the full-scale sample
CellsAreDigitsWitness ==
    /\ adc_pc = "L185"
    /\ disp_pc = "L251"
    /\ Running("TC7")
    /\ adc_raw = ADC_MAX
    /\ display_number = [i \in Positions |-> <<6, 0, 1, 1>>[i + 1]]

\* digit i of v by the reference decomposition
RefDigit(v, i) == (v \div (10^i)) % 10

\* C4: for every v in 0..9999 the four digits stored by lines 183-186 are
\* v%10, (v/10)%10, (v/100)%10, (v/1000)%10, and they recombine to v.
DigitRoundTrip ==
    adc_pc = "L188" =>
       /\ \A i \in Positions : display_number[i] = RefDigit(adc_volt, i)
       /\ display_number[0] + 10 * display_number[1] + 100 * display_number[2]
            + 1000 * display_number[3] = adc_volt

\* all four digits of 9876 have been stored
DigitRoundTripWitness ==
    /\ adc_pc = "L188"
    /\ adc_volt = 9876
    /\ display_number = [i \in Positions |-> <<6, 7, 8, 9>>[i + 1]]

\* the labels at which adc_volt is the millivolt value of adc_raw
AfterMilliVolts == {"L183", "L184", "L185", "L186", "L188", "L193"}

\* C5: the millivolt value is the rescale of the raw sample from the native
\* range of the configured resolution: raw 0 gives 0 and raw 2^R - 1 gives
\* 3300.
ResolutionAwareRescale ==
    adc_pc \in AfterMilliVolts =>
       /\ adc_raw = 0 => adc_volt = 0
       /\ adc_raw = 2^RESOLUTION - 1 => adc_volt = MV_OUT_MAX

\* C6: the filtered value y never exceeds ADC_MAX (and is never negative),
\* and every value given to write_to_dac is in 0..1023.
FilterOutputInRange ==
    /\ FLeq(F_ZERO, y) /\ FLeq(y, IntToFloat(ADC_MAX))
    /\ FLeq(y_prev, IntToFloat(ADC_MAX))
    /\ dac \in {-1} \cup 0..DAC_MAX
    /\ \A r \in io : r[4] \in 0..DAC_MAX

\* the input held at full scale has driven the filter to full scale and the
\* DAC to its largest value
FilterOutputInRangeWitness ==
    /\ y = IntToFloat(ADC_MAX)
    /\ y_prev = IntToFloat(ADC_MAX)
    /\ dac = DAC_MAX
    /\ adc_pc = "idle"

\* C3: the value written to the DAC by a sampling activation is a function
\* of the filter state (y_prev, x_prev) the activation started from: two
\* activations from the same state write the same value whatever they read,
\* and the sample read becomes x_prev, the input of the next activation.
OneSampleDelay ==
    /\ \A a, b \in io : (a[1] = b[1] /\ a[2] = b[2]) => a[4] = b[4]
    /\ \A r \in io : r[4] = DacValue(FilterStep(r[1], r[2]))
    /\ (adc_pc \in {"L182"} \cup AfterMilliVolts) => x_prev = IntToFloat(adc_raw)

\* two activations started from the same state and read different samples,
\* and an activation that started with x_prev = 4095 and read 0 wrote the
\* DAC value of 0.628 * 4095
OneSampleDelayWitness ==
    /\ \E a, b \in io : a[1] = b[1] /\ a[2] = b[2] /\ a[3] # b[3]
    /\ <<F_ZERO, IntToFloat(ADC_MAX), 0, 642>> \in io

AdcNotEnabledYet == {"L124", "L113", "L114", "L136", "L147", "L148", "L149",
                     "L108", "L109"}
DispNotEnabledYet == AdcNotEnabledYet \cup
                     {"L226", "L219", "L220", "L232", "L242", "L243", "L244",
                      "L214", "L215"}

\* C8: when configure_adc_interrupt (configure_display_interrupt) has
\* returned, the timer is disabled and its interrupt flag is clear, and no
\* step of a handler is taken before main has written the ENABLE bit of the
\* handler's timer.
NoPrematureInterrupts ==
    /\ main_pc \in {"L108", "L109"} =>
          ~Enabled(adc_timer) /\ ~Overflowed(adc_timer)
    /\ main_pc \in {"L214", "L215"} =>
          ~Enabled(disp_timer) /\ ~Overflowed(disp_timer)
    /\ main_pc \in AdcNotEnabledYet =>
          adc_pc = "idle" /\ ~InProgress("TC6") /\ nSamples = 0
    /\ main_pc \in DispNotEnabledYet =>
          disp_pc = "idle" /\ ~InProgress("TC7") /\ driven = <<>>

\* the sampling task has completed an activation while the display timer,
\* configured, still waits to be enabled
NoPrematureInterruptsWitness ==
    /\ main_pc = "L215"
    /\ prev_volt # -1
    /\ Bit(disp_timer.INTENSET, OVF_BIT) = 1
    /\ TC7_IRQ \in NVIC_ISER
    /\ ~Enabled(disp_timer)

AdcBodyDone ==
    <<"read", "dac", "y_prev", "x_prev", "cell0", "cell1", "cell2", "cell3",
      "ack">>
DispBodyDone == <<"drive", "advance", "ack">>

\* C9: the step that clears a timer's interrupt flag is the last of the
\* task's body: for TC6 after the read, the DAC write, the filter state
\* update and the four cell stores, for TC7 after the digit drive and the
\* cursor advance; and a handler is never in progress twice.
AckOnCompletion ==
    /\ [][(Overflowed(adc_timer) /\ ~Overflowed(adc_timer'))
             => adc_events' = AdcBodyDone]_vars
    /\ [][(Overflowed(disp_timer) /\ ~Overflowed(disp_timer'))
             => disp_events' = DispBodyDone]_vars
    /\ [](\A h \in {"TC6", "TC7"} :
             Cardinality({k \in 1..Len(active) : active[k] = h}) <= 1)
    /\ [](adc_pc = "idle" <=> ~InProgress("TC6"))
    /\ [](disp_pc = "idle" <=> ~InProgress("TC7"))

\* both flags have been cleared by completed bodies, the sampling one while
\* the display one was preempted
AckOnCompletionWitness ==
    /\ adc_events = AdcBodyDone
    /\ disp_events = DispBodyDone
    /\ ~Overflowed(adc_timer)
    /\ ~Overflowed(disp_timer)
    /\ active = <<"TC6", "TC7">>

\* no sampling activation has stored cell i yet
NoStoreYet(i) ==
    prev_volt = -1 /\ \A k \in 1..Len(adc_events) : adc_events[k] # CellEvent[i]

\* the digits the display task may find in cell i
FreshDigits(i) ==
    (IF prev_volt # -1 THEN {RefDigit(prev_volt, i)} ELSE {})
    \cup (IF adc_pc \in {"L183", "L184", "L185", "L186", "L188"}
          THEN {RefDigit(adc_volt, i)} ELSE {})
    \cup (IF NoStoreYet(i) THEN {1} ELSE {})

\* C10: a digit driven from cell i is digit i of the millivolt value of the
\* last completed sampling activation or of the one in progress, or the
\* sentinel 1 while no activation has stored cell i.
BoundedDisplayLag ==
    [][(disp_pc = "L250" /\ disp_pc' = "L251")
          => ssd'.value \in FreshDigits(DISPLAY_DIGIT_SIZE_MAX - 1 - dig)]_vars

\* the display task, preempting the second sampling activation between its
\* stores, has driven the units digit 6 of the activation in progress while
\* the completed one had stored 0
BoundedDisplayLagWitness ==
    /\ disp_pc = "L251"
    /\ ssd = [value |-> 6, position |-> 3, dp |-> FALSE, blank |-> FALSE]
    /\ adc_pc = "L185"
    /\ prev_volt = 0
    /\ adc_volt = 206

\* a - b for a >= b >= 0, rounded to single precision
FSub(a, b) ==
    IF b[1] = 0 THEN a
    ELSE
      LET d == a[2] - b[2]
          floorB == IF d >= 27 THEN 0 ELSE (b[1] * 8) \div (2^d)
          sticky == IF d >= 27 THEN TRUE ELSE (b[1] * 8) % (2^d) # 0
          S0 == a[1] * 8 - floorB - (IF sticky THEN 1 ELSE 0)
          S == IF sticky /\ S0 % 2 = 0 THEN S0 + 1 ELSE S0
      IN  IF S >= F_LIMIT * 4
          THEN Renorm(RoundNearestEven(S \div 8, S % 8, 4), a[2])
          ELSE IF S >= F_LIMIT * 2
          THEN Renorm(RoundNearestEven(S \div 4, S % 4, 2), a[2] - 1)
          ELSE Normalize(S \div 4, a[2] - 1)

\* |a - b|
FDist(a, b) == IF FLeq(b, a) THEN FSub(a, b) ELSE FSub(b, a)

\* the rounding tolerated in the comparison of two distances: 2^-10, four
\* units in the last place of a value between 2048 and 4095
RoundingSlack == <<F_HIDDEN, -33>>

\* C11: omega is strictly between 0 and 2, every filter step that starts
\* with x_prev equal to the sample fed brings y to within (1-omega) times
\* the distance y_prev had from that sample (up to the rounding of single
\* precision), and with the input held the filtered value has reached the
\* sample by the last activation explored.
FilterStability ==
    /\ omega # F_ZERO /\ FLeq(omega, IntToFloat(2)) /\ omega # IntToFloat(2)
    /\ (adc_pc = "L168" /\ x = x_prev) =>
          FLeq(FDist(y, x_prev),
               FAdd(FMul(one_minus_omega, FDist(y_prev, x_prev)), RoundingSlack))
    /\ (adc_pc = "L168" /\ nSamples = MaxHeldSamples) =>
          FLeq(FDist(y, x), RoundingSlack)

\* the input was 0 and is now held at full scale: the step just computed
\* started 1523.34 below the sample and ends 566.68 below it
FilterStabilityWitness ==
    /\ adc_pc = "L168"
    /\ x = IntToFloat(ADC_MAX) /\ x_prev = x
    /\ FloatToInt(FDist(y_prev, x)) = 1523
    /\ FloatToInt(FDist(y, x)) = 566

\* the values the DAC rescale of y is compared with: the neighbours of y,
\* the whole numbers on either side of it and the two ends of the range
ComparedWith(yv) ==
    {w \in {Below(yv), Above(yv), IntToFloat(FloatToInt(yv)),
            IntToFloat(FloatToInt(yv) + 1), F_ZERO, IntToFloat(ADC_MAX)} :
        FLeq(w, IntToFloat(ADC_MAX))}

\* C12: both rescales are monotonic non-decreasing over the native range:
\* the value written to the DAC for y is not below the value for any
\* smaller filtered value and not above the value for any larger one, and
\* the millivolt value of a raw sample is not below that of any smaller raw
\* sample of 0..4095 and not above that of any larger one.
RescaleMonotonic ==
    /\ adc_pc \in {"L178", "L179", "L182", "L183"} =>
          \A w \in ComparedWith(y) :
             /\ FLeq(w, y) => DacValue(w) <= dac
             /\ FLeq(y, w) => dac <= DacValue(w)
    /\ adc_pc = "L183" =>
          \A b \in 0..ADC_MAX :
             /\ b <= adc_raw => MilliVolts(b) <= adc_volt
             /\ adc_raw <= b => adc_volt <= MilliVolts(b)

\* both rescales have been applied to a sample in the middle of the range,
\* whose filtered value is just below it: DAC 511 (of 1023) and 103 mV
RescaleMonotonicWitness ==
    /\ adc_pc = "L183"
    /\ adc_raw = 2048
    /\ y = Below(IntToFloat(2048))
    /\ dac = 511
    /\ adc_volt = 103

\* the labels after both stores of lines 178-179
AfterUpdate == {"L182"} \cup AfterMilliVolts

\* y is the filter step of the state the activation started from
ComputedFromOldState ==
    /\ adc_pc \in {"L168", "L178"} =>
          /\ y = FilterStep(entry_state[1], entry_state[2])
          /\ y_prev = entry_state[1]
          /\ x_prev = entry_state[2]
    /\ adc_pc \in AfterUpdate => (y_prev = y /\ x_prev = x /\ x = IntToFloat(adc_raw))

\* from y_prev = 0, x_prev = 0 the sample 2048 gives the output 0 and leaves
\* x_prev = 2048, y_prev = 0
FirstStepExample ==
    (adc_pc \in AfterUpdate /\ entry_state = <<F_ZERO, F_ZERO>> /\ adc_raw = 2048) =>
       (y = F_ZERO /\ dac = 0 /\ x_prev = IntToFloat(2048) /\ y_prev = F_ZERO)

\* C13 as stated: y is computed from the old (y_prev, x_prev) before either
\* is overwritten, then x_prev is set to the sample, then y_prev is set to
\* y: no store of y_prev comes before the store of x_prev.
UpdateOrderInputFirst ==
    /\ ComputedFromOldState
    /\ FirstStepExample
    /\ \A k \in 1..Len(adc_events) :
          adc_events[k] = "y_prev" => \E j \in 1..(k - 1) : adc_events[j] = "x_prev"

\* C13 (amended): y is computed from the old (y_prev, x_prev) before either
\* is overwritten, then y_prev is set to y (line 178), then x_prev is set to
\* the sample (line 179); from y_prev = 0, x_prev = 0 the sample 2048 gives
\* the output 0 and leaves x_prev = 2048, y_prev = 0.
UpdateOrderOutputFirst ==
    /\ ComputedFromOldState
    /\ FirstStepExample
    /\ adc_pc = "L179" => (y_prev = y /\ x_prev = entry_state[2])
    /\ \A k \in 1..Len(adc_events) :
          adc_events[k] = "x_prev" => \E j \in 1..(k - 1) : adc_events[j] = "y_prev"

\* between the two stores of an activation that started from y_prev = 0,
\* x_prev = 4095 and read 2048: y_prev is already the new output, x_prev is
\* still the old sample
UpdateOrderOutputFirstWitness ==
    /\ adc_pc = "L179"
    /\ entry_state = <<F_ZERO, IntToFloat(ADC_MAX)>>
    /\ adc_raw = 2048
    /\ y_prev = FilterStep(F_ZERO, IntToFloat(ADC_MAX))
    /\ x_prev = IntToFloat(ADC_MAX)
    /\ adc_events = <<"read", "dac", "y_prev">>

\* the step of line 250
DriveStep == disp_pc = "L250" /\ disp_pc' = "L251"

\* C14: the display activation with cursor c drives position c with the
\* value of cell 3 - c, decimal point and blanking off, and drives nothing
\* else: one digit per activation, so that with the digits of a completed
\* sampling activation in the buffer position 0 shows the thousands digit
\* and position 3 the ones digit.
DriveOneDigit ==
    /\ [][DriveStep =>
            ssd' = [value |-> display_number[DISPLAY_DIGIT_SIZE_MAX - 1 - dig],
                    position |-> dig, dp |-> FALSE, blank |-> FALSE]]_vars
    /\ [][(~DriveStep) => ssd' = ssd]_vars
    /\ [][(DriveStep /\ adc_pc = "idle" /\ prev_volt # -1) =>
            ssd'.value = RefDigit(prev_volt, DISPLAY_DIGIT_SIZE_MAX - 1 - ssd'.position)]_vars
    /\ [](Cardinality({k \in 1..Len(disp_events) : disp_events[k] = "drive"}) <= 1)
    /\ [](disp_pc \in {"L251", "L257", "L258"} =>
            Cardinality({k \in 1..Len(disp_events) : disp_events[k] = "drive"}) = 1)

\* with the digits of 206 mV in the buffer, the activation with cursor 3
\* has driven position 3 with the ones digit 6
DriveOneDigitWitness ==
    /\ disp_pc = "L251"
    /\ dig = 3
    /\ adc_pc = "idle"
    /\ prev_volt = 206
    /\ ssd = [value |-> 6, position |-> 3, dp |-> FALSE, blank |-> FALSE]

\* s is the beginning of t
IsPrefix(s, t) == Len(s) <= Len(t) /\ s = SubSeq(t, 1, Len(s))

\* C15: what a sampling activation has done so far is always a beginning of
\* the sequence read, DAC write, state update, cell 0, cell 1, cell 2,
\* cell 3, acknowledge, each once; and when it has acknowledged, the DAC
\* holds the rescaled filter step of the state it started from and the four
\* cells hold the digits of the millivolt value of the one sample it read.
OneActivationOneEffect ==
    /\ IsPrefix(adc_events, AdcBodyDone)
    /\ adc_pc = "L193" =>
          /\ adc_events = AdcBodyDone
          /\ dac = DacValue(FilterStep(entry_state[1], entry_state[2]))
          /\ \A i \in Positions : display_number[i] = RefDigit(MilliVolts(adc_raw), i)
    /\ Cardinality(io) <= nSamples

\* an activation that started with x_prev = 4095 and read 4095 has
\* acknowledged: DAC 642, cells 6, 0, 2, 0 (206 mV)
OneActivationOneEffectWitness ==
    /\ adc_pc = "L193"
    /\ adc_events = AdcBodyDone
    /\ entry_state = <<F_ZERO, IntToFloat(ADC_MAX)>>
    /\ adc_raw = ADC_MAX
    /\ dac = 642
    /\ display_number = [i \in Positions |-> <<6, 0, 2, 0>>[i + 1]]

\* C16 as stated: in the state each of enable_adc_timer, disable_adc_timer,
\* enable_display_timer and disable_display_timer returns to, the sync-busy
\* bit of its timer is clear: the write of ENABLE just made is acknowledged.
SyncedOnReturn ==
    /\ [][(main_pc = "L114" /\ main_pc' = "L136") => ~SyncBusy(adc_timer')]_vars
    /\ [][(main_pc = "L220" /\ main_pc' = "L232") => ~SyncBusy(disp_timer')]_vars
    /\ [][(main_pc = "L109" /\ main_pc' = "L226") => ~SyncBusy(adc_timer')]_vars
    /\ [][(main_pc = "L215" /\ main_pc' = "L91") => ~SyncBusy(disp_timer')]_vars

\* C16 (amended): disable_adc_timer and disable_display_timer return with
\* ENABLE clear and its write acknowledged (sync-busy clear after the
\* write); enable_adc_timer and enable_display_timer wait until sync-busy is
\* clear, so that every earlier write is acknowledged, then write ENABLE and
\* return at once, with that write still to be acknowledged.
SyncedAroundWrite ==
    /\ [][(main_pc = "L114" /\ main_pc' = "L136") =>
            (~SyncBusy(adc_timer') /\ ~Enabled(adc_timer'))]_vars
    /\ [][(main_pc = "L220" /\ main_pc' = "L232") =>
            (~SyncBusy(disp_timer') /\ ~Enabled(disp_timer'))]_vars
    /\ [][(main_pc = "L109" /\ main_pc' = "L226") =>
            (~SyncBusy(adc_timer) /\ Enabled(adc_timer') /\ SyncBusy(adc_timer'))]_vars
    /\ [][(main_pc = "L215" /\ main_pc' = "L91") =>
            (~SyncBusy(disp_timer) /\ Enabled(disp_timer') /\ SyncBusy(disp_timer'))]_vars

\* main has returned from enable_display_timer and the write of ENABLE of
\* TC7 is not acknowledged yet, while TC6, acknowledged, already runs
SyncedAroundWriteWitness ==
    /\ main_pc = "L91"
    /\ Enabled(disp_timer) /\ SyncBusy(disp_timer)
    /\ Enabled(adc_timer) /\ ~SyncBusy(adc_timer)
    /\ nSamples > 0

\* main is at the busy-wait of timer t and the sync-busy bit is set
WaitsOn ==
    \/ main_pc \in {"L108", "L114"} /\ SyncBusy(adc_timer)
    \/ main_pc \in {"L214", "L220"} /\ SyncBusy(disp_timer)

\* C17: with hardware that eventually clears the sync-busy bit, main gets
\* past all four busy-waits and reaches its end with both timers enabled;
\* and while the bit is set main stays at the busy-wait, whatever else
\* happens: there is no other way out of it.
StartupCompletes ==
    /\ <>(main_pc = "done" /\ Enabled(adc_timer) /\ Enabled(disp_timer))
    /\ [][WaitsOn => main_pc' = main_pc]_vars

\* main has returned with both timers enabled and synchronised, after a
\* sampling activation that came in during startup
StartupCompletesWitness ==
    /\ main_pc = "done"
    /\ Enabled(adc_timer) /\ ~SyncBusy(adc_timer)
    /\ Enabled(disp_timer) /\ ~SyncBusy(disp_timer)
    /\ nSamples > 0

\* how many times the sampling activation in progress has done e
TimesDone(e) == Cardinality({k \in 1..Len(adc_events) : adc_events[k] = e})

\* C18: x_prev and y_prev change only in the steps of lines 178-179 of the
\* sampling task, each stored exactly once per sampling activation; dig
\* changes only in the step of line 251 of the display task; no step of the
\* display task changes x_prev or y_prev and no step of the sampling task
\* changes dig, however the two handlers are nested.
StateOwnership ==
    /\ [][y_prev' # y_prev => (Running("TC6") /\ adc_pc = "L178" /\ adc_pc' = "L179")]_vars
    /\ [][x_prev' # x_prev => (Running("TC6") /\ adc_pc = "L179" /\ adc_pc' = "L182")]_vars
    /\ [][dig' # dig => (Running("TC7") /\ disp_pc = "L251" /\ disp_pc' = "L257")]_vars
    /\ [][disp_pc' # disp_pc => (x_prev' = x_prev /\ y_prev' = y_prev)]_vars
    /\ [][adc_pc' # adc_pc => dig' = dig]_vars
    /\ [](TimesDone("y_prev") <= 1 /\ TimesDone("x_prev") <= 1)
    /\ [](adc_pc \in AfterUpdate => (TimesDone("y_prev") = 1 /\ TimesDone("x_prev") = 1))

\* the display task, nested in a sampling activation between the stores of
\* lines 178 and 179, has advanced the cursor: y_prev is already the new
\* output, x_prev still the old sample
StateOwnershipWitness ==
    /\ active = <<"TC6", "TC7">>
    /\ adc_pc = "L179"
    /\ disp_pc = "L257"
    /\ dig = 1
    /\ adc_raw = 0
    /\ y_prev = FilterStep(F_ZERO, IntToFloat(ADC_MAX))
    /\ x_prev = IntToFloat(ADC_MAX)

\* what the sampling task reads, computes and writes
AdcCore == <<adc_raw, adc_volt, x, y, y_prev, x_prev, dac, display_number, nSamples>>

\* what the display task drives and advances
DispCore == <<ssd, dig, driven>>

\* the handler reads the flag at line 162 (249) and finds it clear
AdcFlagFoundClear == adc_pc = "L162" /\ adc_pc' # adc_pc /\ ~Overflowed(adc_timer)
DispFlagFoundClear == disp_pc = "L249" /\ disp_pc' # disp_pc /\ ~Overflowed(disp_timer)

\* C19: adc_handler that finds bit 0 of INTFLAG clear goes straight to its
\* end: no ADC read, no DAC write, no change of the filter state or of the
\* buffer; display_handler that finds it clear drives no digit and leaves
\* the cursor; and the steps before the test and after the end of the body
\* change none of these either.
NoOpWhenFlagClear ==
    /\ [][AdcFlagFoundClear => (adc_pc' = "L193" /\ AdcCore' = AdcCore)]_vars
    /\ [][(adc_pc' # adc_pc /\ (adc_pc = "idle" \/ adc_pc = "L193")) =>
            AdcCore' = AdcCore]_vars
    /\ [](adc_pc = "L193" => adc_events \in {<<>>, AdcBodyDone})
    /\ [][DispFlagFoundClear => (disp_pc' = "L257" /\ DispCore' = DispCore)]_vars
    /\ [][(disp_pc' # disp_pc /\ disp_pc \in {"idle", "L257", "L258"}) =>
            DispCore' = DispCore]_vars
    /\ [](disp_pc = "L257" => disp_events \in {<<>>, <<"drive", "advance">>})

\* both handlers, entered with their flags clear after a sampling activation
\* that read 4095, are at their ends having done nothing: the DAC, the
\* buffer and the cursor are as that activation and one display step left
\* them
NoOpWhenFlagClearWitness ==
    /\ adc_pc = "L193" /\ adc_events = <<>>
    /\ disp_pc = "L257" /\ disp_events = <<>>
    /\ ~Overflowed(adc_timer) /\ ~Overflowed(disp_timer)
    /\ nSamples = 1 /\ adc_raw = ADC_MAX /\ dac = 0
    /\ dig = 1 /\ driven = <<0>>

\* a sampling activation has stored all four cells, or has completed
CellsStored == adc_pc \in {"L188", "L193"} \/ (adc_pc = "idle" /\ prev_volt # -1)

\* C20: for every raw sample 0..4095 the millivolt value computed at line
\* 182 is at most 3300, so below 10000, and once a sampling activation has
\* stored the four cells they recombine, cell0 + 10*cell1 + 100*cell2 +
\* 1000*cell3, to exactly that millivolt value.
MilliVoltsFitFourDigits ==
    /\ adc_raw \in 0..ADC_MAX
    /\ adc_pc \in AfterMilliVolts =>
          (adc_volt <= MV_OUT_MAX /\ adc_volt < 10^DISPLAY_DIGIT_SIZE_MAX)
    /\ CellsStored =>
          /\ adc_volt = MilliVolts(adc_raw)
          /\ display_number[0] + 10 * display_number[1] + 100 * display_number[2]
               + 1000 * display_number[3] = adc_volt

\* the activation that read the full-scale sample 4095 has completed: the
\* cells 6, 0, 2, 0 recombine to its millivolt value 206
MilliVoltsFitFourDigitsWitness ==
    /\ adc_pc = "idle"
    /\ adc_raw = ADC_MAX
    /\ prev_volt = 206
    /\ adc_volt = 206
    /\ display_number = [i \in Positions |-> <<6, 0, 2, 0>>[i + 1]]
====
